---- MODULE Spec2Model ----
(***************************************************************************)
(* A state-machine model of src/src/reader.rs: the Builder that configures *)
(* and opens an archive, the ReaderHandle (session) that owns the engine   *)
(* handle, the ArchiveIterator and the ArchiveEntry handles it produces.   *)
(* The decoding engine (libarchive, reached through ffi::) is modelled by  *)
(* its handle state, its cursor and the nondeterministic status of each    *)
(* call.                                                                   *)
(***************************************************************************)
EXTENDS Integers, Sequences, FiniteSets

\* ---------------------------------------------------------------- bounds
\* number of members of the archive being read
NMembers == 2
\* number of ArchiveIterator::next calls explored
MaxAdvance == 3
\* number of support_* registrations explored on one builder
MaxSupport == 2
\* number of stream_read_callback invocations explored on one session
MaxPulls == 3
\* bytes of the wrapped source beyond one full scratch buffer
SrcTail == 2

\* ------------------------------------------------------------- constants
\* Option<usize>::None of the shared Cell (Default for Cell<Option<usize>>)
None == -1
\* heap address of the boxed Pipe; 0 is the null pointer
PipeAddrs == {1, 2}
NullPtr == 0

\* size of the single member hello.txt of the fixture sample.tar.gz
HelloSize == 14

\* the archive being read, in physical member order: name, size, file type
\* bits and content of member m (a content byte is named by member and offset)
MemberName(m) == IF m = 1 THEN "hello.txt" ELSE <<"member", m>>
MemberSize(m) == IF m = 1 THEN HelloSize ELSE m
MemberMode(m) == CASE m = 1 -> "AE_IFREG" [] m = 2 -> "AE_IFDIR" [] OTHER -> "AE_IFBLK"
Content(m) == [j \in 1..MemberSize(m) |-> <<m, j>>]

\* lengths of the buffers callers pass to Read::read
ReadLens == {8, HelloSize}

\* capacity of the Pipe's scratch buffer (vec![0; 8192])
BufLen == 8192
\* the wrapped byte source holds the bytes 0 .. SrcLen-1 of the archive
SrcLen == BufLen + SrcTail
\* a read the source answers with fewer bytes than the buffer could take
ShortRead == 4096
\* the NUL character, and the messages (Display of io::Error) a source fails with
NUL == "NUL"
SrcMsgs == {<<"e", "i", "o">>, <<"e", NUL, "o">>}
\* e.raw_os_error(): <<>> is Option::None, <<n>> is Some(n); 5 is EIO
SrcOsErrors == {<<>>, <<5>>}

Min(a, b) == IF a < b THEN a ELSE b

\* what Read::read(&mut buf) of the wrapped source can answer at offset p into
\* a buffer of cap bytes: Ok(n) with n = 0 only at the end of the source, or Err
SourceRead(p, cap) ==
    LET rem  == SrcLen - p
        full == Min(cap, rem)
        ns   == IF full = 0 THEN {0} ELSE {full} \cup {n \in {ShortRead} : n < full}
    IN  {[kind |-> "ok", n |-> n, os |-> <<>>, msg |-> <<>>] : n \in ns}
        \cup {[kind |-> "err", n |-> 0, os |-> o, msg |-> m] : o \in SrcOsErrors, m \in SrcMsgs}

\* the engine's error slot before any archive_set_error
NoErr == [errno |-> 0, msg |-> <<>>]
\* no stream_read_callback has run yet
NoCb == [outcome |-> "none", ret |-> 0, reads |-> 0, buff |-> 0,
         src |-> [kind |-> "none", n |-> 0, os |-> <<>>, msg |-> <<>>]]

\* Pipe::new(src): a source at offset 0 and a scratch buffer of BufLen zeroes,
\* none of them source bytes yet (buf = source range the buffer's head holds)
PipeNew ==
    [srcPos |-> 0, cap |-> BufLen, buf |-> [from |-> 0, len |-> 0], delivered |-> <<>>,
     err |-> NoErr, pulls |-> 0, cb |-> NoCb]

\* Pipe::read_bytes: one read of the source into the whole buffer
read_bytes(p, r) ==
    IF r.kind = "ok"
    THEN [p EXCEPT !.srcPos = p.srcPos + r.n, !.buf = [from |-> p.srcPos, len |-> r.n]]
    ELSE p

\* CString::new(s): fails on an interior NUL byte
CStringNew(s) == IF \E i \in 1..Len(s) : s[i] = NUL THEN "NulError" ELSE s

\* Option<i32>::unwrap_or(0)
UnwrapOr0(o) == IF o = <<>> THEN 0 ELSE o[1]

\* the callback answering every successful read with the buffer's capacity
CallbackSizeFull(p, r) == p.cap

\* the byte count stream_read_callback returns for Ok(size)
CallbackSize(p, r) == r.n

\* stream_read_callback(handle, data, buff) for the source's answer r: the
\* outcome ("return" or "panic" of the unwrap), the value returned, and the
\* engine's error slot afterwards
StreamReadCallback(p, r) ==
    IF r.kind = "ok"
    THEN [outcome |-> "return", ret |-> CallbackSize(p, r), err |-> p.err]
    ELSE IF CStringNew(r.msg) = "NulError"
         THEN [outcome |-> "panic", ret |-> 0, err |-> p.err]
         ELSE [outcome |-> "return", ret |-> -1,
               err |-> [errno |-> UnwrapOr0(r.os), msg |-> CStringNew(r.msg)]]

\* no archive_entry_new object exists and no ArchiveIterator points anywhere
NoEntryObj == [state |-> "none", frees |-> 0, ptr |-> "null"]
\* ffi::archive_entry_new() in into_iter: a fresh object, held in the entry field
EntryObjNew == [state |-> "alloc", frees |-> 0, ptr |-> "own"]

MetaOps == {"pathname", "size", "filetype", "is_directory", "is_file"}
EntryOps == MetaOps \cup {"read"}

VARIABLES
    builder,      \* Builder: [live, consumed]; live = the value has not been dropped
    nsupport,     \* number of successful support_* / support_all calls
    hState,       \* engine handle: "new" | "open" | "eof" | "fatal" | "freed"
    freeCount,    \* number of archive_read_free calls made on the engine handle
    freedBy,      \* "none" | "builder" | "session": whose Drop released the handle
    pos,          \* engine cursor: number of member headers consumed
    entryMember,  \* member described by the engine's entry struct (0 = none)
    dataOff,      \* bytes of the current member's content the engine has delivered
    clientData,   \* callback data pointer registered with the engine (NullPtr = none)
    pipe,         \* Box<Pipe>: "none" | "alloc" | "freed"
    pipeAddr,     \* heap address of the Pipe (NullPtr while there is none)
    pipeAtFree,   \* state of the Pipe when archive_read_free ran ("unset" before)
    bridge,       \* the Pipe's source and buffer, the chunks handed to the engine,
                  \* the engine's error slot and the last stream_read_callback
    reader,       \* ReaderHandle: "none" | "stack" | "rc" | "dropped"
    rcCount,      \* strong count of Rc<ReaderHandle>
    iter,         \* ArchiveIterator: "none" | "live" | "dropped"
    token,        \* Rc<Cell<Option<usize>>> shared by iterator and entries
    advances,     \* number of ArchiveIterator::next calls started
    handles,      \* ArchiveEntry values in creation order: [current, member, adv, live]
                  \* plus got, the bytes read through it, and done, a read returned 0
    pc,           \* position inside ArchiveIterator::next: "idle" | "next_call"
    entryObj,     \* the archive_entry_new object of into_iter: [state, frees], and ptr,
                  \* what ArchiveIterator::entry points at: "null" | "own" | "engine"
    ended,        \* some next() has already returned None or Some(Err)
    last          \* outcome of the last API call: [op, h, res, val, eng, calls, ret]

builderVars == <<builder, nsupport>>
engineVars  == <<hState, freeCount, freedBy, pos, entryMember, dataOff, clientData>>
pipeVars    == <<pipe, pipeAddr, pipeAtFree, bridge>>
readerVars  == <<reader, rcCount>>
iterVars    == <<iter, token, advances, handles, pc, ended, entryObj>>
vars == <<builder, nsupport, hState, freeCount, freedBy, pos, entryMember,
          dataOff, clientData, pipe, pipeAddr, pipeAtFree, bridge, reader, rcCount,
          iter,
          token, advances, handles, pc, ended, entryObj, last>>

\* result record of an API call: op, the entry it was made on (0 = none),
\* the result class, the member a value belongs to, and the number of engine
\* calls the operation issued
Outcome(op, h, res, val, eng) ==
    [op |-> op, h |-> h, res |-> res, val |-> val, eng |-> eng, calls |-> <<>>,
     ret |-> "none"]

\* one fallible engine call and the status it returned
Call(fn, status) == [fn |-> fn, status |-> status]

\* result record of an API call that issued the engine calls `calls`
OutcomeCalls(op, h, res, val, calls) ==
    [op |-> op, h |-> h, res |-> res, val |-> val, eng |-> Len(calls), calls |-> calls,
     ret |-> "none"]

\* result record of an entry accessor or read that returned the value ret
OutcomeRet(op, h, res, val, calls, ret) ==
    [op |-> op, h |-> h, res |-> res, val |-> val, eng |-> Len(calls), calls |-> calls,
     ret |-> ret]

\* ------------------------------------------------------------ the builder
\* Builder::default: archive_read_new succeeded, consumed: false
BuilderDefault == [live |-> TRUE, consumed |-> FALSE]

\* check_consumed with the flag test left out
check_consumed_skipped(b) == FALSE

\* Builder::check_consumed: TRUE when it returns Err(ArchiveError::Consumed)
check_consumed(b) == b.consumed

\* Builder::consume
consume(b) == [b EXCEPT !.consumed = TRUE]

\* Drop for Builder releasing the handle whatever the flag says
BuilderDropFreesAlways(b) == TRUE

\* Drop for Builder: archive_read_free unless consumed
BuilderDropFrees(b) == ~b.consumed

\* ArchiveResult::from(&dyn Handle) for a registration that did not return
\* ARCHIVE_OK: a typed error carrying the engine's code and message
ArchiveResultFromHandle(status) == IF status = "OK" THEN "ok" ELSE "sys"

\* the by-value `self` of a Builder method going out of scope at the end of
\* the method, after the engine handle reached state hs and the Pipe state p
DropBuilderValue(b, hs, p) ==
    /\ builder' = [b EXCEPT !.live = FALSE]
    /\ IF BuilderDropFrees(b)
       THEN /\ hState' = "freed"
            /\ freeCount' = freeCount + 1
            /\ freedBy' = "builder"
            /\ pipeAtFree' = p
       ELSE /\ hState' = hs
            /\ UNCHANGED <<freeCount, freedBy, pipeAtFree>>

Init ==
    /\ builder = BuilderDefault
    /\ nsupport = 0
    /\ hState = "new"
    /\ freeCount = 0
    /\ freedBy = "none"
    /\ pos = 0
    /\ entryMember = 0
    /\ dataOff = 0
    /\ clientData = NullPtr
    /\ pipe = "none"
    /\ pipeAddr = NullPtr
    /\ pipeAtFree = "unset"
    /\ bridge = PipeNew
    /\ reader = "none"
    /\ rcCount = 0
    /\ iter = "none"
    /\ token = None
    /\ advances = 0
    /\ handles = <<>>
    /\ pc = "idle"
    /\ ended = FALSE
    /\ entryObj = NoEntryObj
    /\ last = Outcome("new", 0, "ok", 0, 0)

\* statuses an engine registration call can return
SupportStatuses == {"OK", "FAILED"}

\* the three families of registration calls
SupportKinds == {"format", "filter", "compression"}

\* Builder::support_format / support_filter / support_compression: one engine
\* registration call; Ok(self) on ARCHIVE_OK, otherwise the error and the
\* builder is dropped with the method's frame
Support ==
    /\ pc = "idle"
    /\ builder.live
    /\ nsupport < MaxSupport
    /\ \E status \in SupportStatuses, kind \in SupportKinds :
          IF ArchiveResultFromHandle(status) = "ok"
          THEN /\ nsupport' = nsupport + 1
               /\ last' = OutcomeCalls("support", 0, "ok", 0,
                                       <<Call("archive_read_support_" \o kind, status)>>)
               /\ UNCHANGED <<builder, hState, freeCount, freedBy, pipeAtFree>>
          ELSE /\ DropBuilderValue(builder, hState, pipe)
               /\ last' = OutcomeCalls("support", 0, "sys", 0,
                                       <<Call("archive_read_support_" \o kind, status)>>)
               /\ UNCHANGED nsupport
    /\ UNCHANGED <<pos, entryMember, dataOff, clientData, pipe, pipeAddr, bridge>>
    /\ UNCHANGED <<readerVars, iterVars>>

\* Builder::support_all: the registrations in the order they are chained
SupportAllOrder == <<"format", "filter", "compression">>

\* position of the first registration of the chain that fails when the k-th
\* one returns sts[k], one past the end when none fails
FirstFailure(sts) ==
    IF \E k \in 1..Len(sts) : ArchiveResultFromHandle(sts[k]) # "ok"
    THEN CHOOSE k \in 1..Len(sts) :
            /\ ArchiveResultFromHandle(sts[k]) # "ok"
            /\ \A j \in 1..(k - 1) : ArchiveResultFromHandle(sts[j]) = "ok"
    ELSE Len(sts) + 1

\* the chain issuing every registration whatever the earlier ones returned
ChainCallsAll(kinds, sts) ==
    [k \in 1..Len(kinds) |-> Call("archive_read_support_" \o kinds[k] \o "_all", sts[k])]

\* the engine calls a chain of support_* calls joined by `?` issues: the
\* first error ends the chain
ChainCalls(kinds, sts) ==
    [k \in 1..(IF FirstFailure(sts) < Len(kinds) THEN FirstFailure(sts) ELSE Len(kinds)) |->
        Call("archive_read_support_" \o kinds[k] \o "_all", sts[k])]

\* Builder::support_all(self)
SupportAll ==
    /\ pc = "idle"
    /\ builder.live
    /\ nsupport < MaxSupport
    /\ \E sts \in [1..Len(SupportAllOrder) -> SupportStatuses] :
          IF FirstFailure(sts) > Len(SupportAllOrder)
          THEN /\ nsupport' = nsupport + 1
               /\ last' = OutcomeCalls("support_all", 0, "ok", 0,
                                       ChainCalls(SupportAllOrder, sts))
               /\ UNCHANGED <<builder, hState, freeCount, freedBy, pipeAtFree>>
          ELSE /\ DropBuilderValue(builder, hState, pipe)
               /\ last' = OutcomeCalls("support_all", 0, "sys", 0,
                                       ChainCalls(SupportAllOrder, sts))
               /\ UNCHANGED nsupport
    /\ UNCHANGED <<pos, entryMember, dataOff, clientData, pipe, pipeAddr, bridge>>
    /\ UNCHANGED <<readerVars, iterVars>>

\* the builder value is dropped without an open call
DropBuilder ==
    /\ pc = "idle"
    /\ builder.live
    /\ DropBuilderValue(builder, hState, pipe)
    /\ last' = Outcome("drop_builder", 0, "ok", 0, 0)
    /\ UNCHANGED <<nsupport, pos, entryMember, dataOff, clientData, pipe, pipeAddr, bridge>>
    /\ UNCHANGED <<readerVars, iterVars>>

\* status of the engine's open call (archive_read_open_filename / archive_read_open)
OpenStatuses == {"OK", "FATAL"}

\* engine handle state after an open call returned status
EngineOpen(status) == IF status = "OK" THEN "open" ELSE "fatal"

\* the builder as open_file leaves it after the engine's open call
OpenFileBuilder(b, status) == IF status = "OK" THEN consume(b) ELSE b

\* open_stream consuming the builder only on ARCHIVE_OK, as open_file does
OpenStreamBuilderAsFile(b, status) == IF status = "OK" THEN consume(b) ELSE b

\* the builder as open_stream leaves it after the engine's open call
OpenStreamBuilder(b, status) == consume(b)

\* Builder::open_file(mut self, file)
OpenFile ==
    /\ pc = "idle"
    /\ builder.live
    /\ IF check_consumed(builder)
       THEN /\ DropBuilderValue(builder, hState, pipe)
            /\ last' = Outcome("open_file", 0, "consumed", 0, 0)
            /\ UNCHANGED reader
       ELSE \E status \in OpenStatuses :
            /\ DropBuilderValue(OpenFileBuilder(builder, status), EngineOpen(status), pipe)
            /\ reader' = IF status = "OK" THEN "stack" ELSE reader
            /\ last' = OutcomeCalls("open_file", 0, IF status = "OK" THEN "ok" ELSE "sys", 0,
                                    <<Call("archive_read_open_filename", status)>>)
    /\ UNCHANGED <<nsupport, pos, entryMember, dataOff, clientData, pipe, pipeAddr, bridge, rcCount>>
    /\ UNCHANGED iterVars

\* Builder::open_stream(mut self, src): the Pipe is boxed, its address is
\* handed to archive_read_open as callback data; on ARCHIVE_OK the box moves
\* into the ReaderHandle, otherwise it is dropped at the end of the block,
\* before `self` is
OpenStream ==
    /\ pc = "idle"
    /\ builder.live
    /\ IF check_consumed(builder)
       THEN /\ DropBuilderValue(builder, hState, pipe)
            /\ last' = Outcome("open_stream", 0, "consumed", 0, 0)
            /\ UNCHANGED <<reader, clientData, pipe, pipeAddr, bridge>>
       ELSE \E status \in OpenStatuses, addr \in PipeAddrs :
            /\ clientData' = addr
            /\ pipeAddr' = addr
            /\ bridge' = PipeNew
            /\ pipe' = IF status = "OK" THEN "alloc" ELSE "freed"
            /\ DropBuilderValue(OpenStreamBuilder(builder, status), EngineOpen(status), pipe')
            /\ reader' = IF status = "OK" THEN "stack" ELSE reader
            /\ last' = OutcomeCalls("open_stream", 0, IF status = "OK" THEN "ok" ELSE "sys", 0,
                                    <<Call("archive_read_open", status)>>)
    /\ UNCHANGED <<nsupport, pos, entryMember, dataOff, rcCount>>
    /\ UNCHANGED iterVars

\* ------------------------------------------------------------- the bridge
\* the engine pulls a block from a stream session: stream_read_callback runs
\* once on the Pipe registered at open.  A positive return hands the engine
\* the first ret bytes of the buffer, 0 is the end of the stream, a negative
\* return fails the engine's read; a panic inside the extern "C" callback
\* aborts the process
Pull ==
    /\ pc \in {"idle", "next_call"}
    /\ pipe = "alloc"
    /\ hState = "open"
    /\ bridge.pulls < MaxPulls
    /\ \E r \in SourceRead(bridge.srcPos, bridge.cap) :
          LET p  == read_bytes(bridge, r)
              cb == StreamReadCallback(p, r)
          IN  /\ bridge' = [p EXCEPT
                    !.pulls = bridge.pulls + 1,
                    !.err = cb.err,
                    !.cb = [outcome |-> cb.outcome, ret |-> cb.ret, reads |-> 1,
                            buff |-> clientData, src |-> r],
                    !.delivered = IF cb.outcome = "return" /\ cb.ret > 0
                                  THEN Append(p.delivered, [from |-> p.buf.from, len |-> cb.ret])
                                  ELSE p.delivered]
              /\ hState' = IF cb.outcome = "return" /\ cb.ret < 0 THEN "fatal" ELSE hState
              /\ pc' = IF cb.outcome = "panic" THEN "aborted" ELSE pc
    /\ UNCHANGED <<builderVars, freeCount, freedBy, pos, entryMember, dataOff, clientData,
                   pipe, pipeAddr, pipeAtFree, readerVars, iter, token, advances, handles,
                   ended, entryObj, last>>

\* ------------------------------------------------------------ the session
\* Drop for ReaderHandle followed by the drop of its fields: archive_read_free
\* runs in Drop::drop, the Option<Box<Pipe>> field is dropped after it
ReaderHandleDrop ==
    /\ hState' = "freed"
    /\ freeCount' = freeCount + 1
    /\ freedBy' = "session"
    /\ pipeAtFree' = pipe
    /\ pipe' = IF pipe = "alloc" THEN "freed" ELSE pipe
    /\ reader' = "dropped"

\* an Rc<ReaderHandle> owner goes away: the ReaderHandle is dropped with the
\* last strong reference
RcRelease ==
    /\ rcCount' = rcCount - 1
    /\ IF rcCount' = 0
       THEN ReaderHandleDrop
       ELSE UNCHANGED <<hState, freeCount, freedBy, pipeAtFree, pipe, reader>>

\* the caller drops a ReaderHandle it never turned into an iterator
DropReader ==
    /\ pc = "idle"
    /\ reader = "stack"
    /\ ReaderHandleDrop
    /\ last' = Outcome("drop_reader", 0, "ok", 0, 0)
    /\ UNCHANGED <<builderVars, pos, entryMember, dataOff, clientData, pipeAddr, bridge, rcCount>>
    /\ UNCHANGED iterVars

\* a Box<Pipe> moved together with its owner keeps its heap address
BoxMove(addr) == addr

\* IntoIterator for ReaderHandle::into_iter: the session moves into a new Rc,
\* the shared cell starts as None
IntoIter ==
    /\ pc = "idle"
    /\ reader = "stack"
    /\ reader' = "rc"
    /\ rcCount' = 1
    /\ pipeAddr' = BoxMove(pipeAddr)
    /\ iter' = "live"
    /\ token' = None
    /\ entryObj' = EntryObjNew
    /\ last' = Outcome("into_iter", 0, "ok", 0, 0)
    /\ UNCHANGED <<builderVars, engineVars, pipe, pipeAtFree, bridge, advances, handles,
                   pc, ended>>

\* ----------------------------------------------------------- the iterator
\* the index computed without the increment
NextIndexStuck(t) == IF t = None THEN 0 ELSE t

\* the index computed starting from one
NextIndexFromOne(t) == IF t = None THEN 1 ELSE t + 1

\* ArchiveIterator::next, first statement: the index the call will use
NextIndex(t) == IF t = None THEN 0 ELSE t + 1

\* ArchiveIterator::next up to self.current.set(Some(current)): the shared
\* cell is bumped before the engine is called
NextBump ==
    /\ pc = "idle"
    /\ iter = "live"
    /\ advances < MaxAdvance
    /\ advances' = advances + 1
    /\ token' = NextIndex(token)
    /\ pc' = "next_call"
    /\ UNCHANGED <<builderVars, engineVars, pipeVars, readerVars>>
    /\ UNCHANGED <<iter, handles, ended, entryObj, last>>

\* statuses archive_read_next_header can return with the engine handle in
\* state hs and p headers consumed: a handle that reached end-of-archive or a
\* fatal error only fails; otherwise the next header is delivered, cleanly or
\* with a warning, or the archive ends, or decoding fails
NextHeaderStatuses(hs, p) ==
    IF hs # "open" THEN {"FATAL"}
    ELSE IF p < NMembers THEN {"OK", "WARN", "FATAL"}
    ELSE {"EOF", "FATAL"}

\* engine handle state after archive_read_next_header returned status
NextHeaderState(hs, status) ==
    CASE status = "EOF" -> "eof"
      [] status = "FATAL" -> "fatal"
      [] OTHER -> hs

\* engine cursor after archive_read_next_header returned status
NextHeaderPos(p, status) == IF status \in {"OK", "WARN"} THEN p + 1 ELSE p

\* ArchiveEntry::new(reader, handle, iterator_current, current); member is
\* what the entry struct describes and adv the next() call that made it
ArchiveEntryNew(current, member, adv) ==
    [current |-> current, member |-> member, adv |-> adv, live |-> TRUE,
     got |-> <<>>, done |-> FALSE]

\* archive_read_next_header(handle, &mut self.entry): the engine stores the
\* address of its own entry struct in the iterator's entry field; the object
\* the field pointed at before is neither freed nor remembered
NextHeaderEntryPtr(e) == [e EXCEPT !.ptr = "engine"]

\* an ArchiveEntry built without taking a reference to the session
RcCloneUncounted(n) == n

\* self.reader.clone(): one more strong reference to the ReaderHandle
RcClone(n) == n + 1

\* ArchiveIterator::next from the archive_read_next_header call to the return
NextHeader ==
    /\ pc = "next_call"
    /\ \E status \in NextHeaderStatuses(hState, pos) :
          /\ hState' = NextHeaderState(hState, status)
          /\ pos' = NextHeaderPos(pos, status)
          /\ entryMember' = IF status \in {"OK", "WARN"} THEN pos' ELSE 0
          /\ dataOff' = 0
          /\ CASE status = "OK" ->
                    /\ handles' = Append(handles, ArchiveEntryNew(token, entryMember', advances))
                    /\ rcCount' = RcClone(rcCount)
                    /\ last' = OutcomeCalls("next", Len(handles'), "entry", entryMember',
                                            <<Call("archive_read_next_header", status)>>)
                    /\ UNCHANGED ended
               [] status = "EOF" ->
                    /\ last' = OutcomeCalls("next", 0, "end", 0,
                                            <<Call("archive_read_next_header", status)>>)
                    /\ ended' = TRUE
                    /\ UNCHANGED <<handles, rcCount>>
               [] OTHER ->
                    /\ last' = OutcomeCalls("next", 0, "sys", 0,
                                            <<Call("archive_read_next_header", status)>>)
                    /\ ended' = TRUE
                    /\ UNCHANGED <<handles, rcCount>>
    /\ entryObj' = NextHeaderEntryPtr(entryObj)
    /\ pc' = "idle"
    /\ UNCHANGED <<builderVars, freeCount, freedBy, clientData, pipeVars>>
    /\ UNCHANGED <<reader, iter, token, advances>>

\* ReaderHandle::next_header: Some(&mut entry) when the engine returned 0
\* (ARCHIVE_OK), None for every other status
ReaderNextHeaderResult(status) == IF status = "OK" THEN "entry" ELSE "none"

\* ReaderHandle::next_header(&mut self) on a session the caller still owns
ReaderNextHeader ==
    /\ pc = "idle"
    /\ reader = "stack"
    /\ \E status \in NextHeaderStatuses(hState, pos) :
          /\ hState' = NextHeaderState(hState, status)
          /\ pos' = NextHeaderPos(pos, status)
          /\ entryMember' = IF status \in {"OK", "WARN"} THEN pos' ELSE 0
          /\ dataOff' = 0
          /\ last' = OutcomeCalls("next_header", 0, ReaderNextHeaderResult(status),
                                  IF status = "OK" THEN entryMember' ELSE 0,
                                  <<Call("archive_read_next_header", status)>>)
    /\ UNCHANGED <<builderVars, freeCount, freedBy, clientData, pipeVars>>
    /\ UNCHANGED <<readerVars, iterVars>>

\* ArchiveIterator has no Drop impl: dropping its entry field, a raw pointer,
\* frees nothing
ArchiveIteratorDropEntry(e) == [e EXCEPT !.ptr = "null"]

\* the ArchiveIterator is dropped: its Rc<ReaderHandle> is released
DropIter ==
    /\ pc = "idle"
    /\ iter = "live"
    /\ iter' = "dropped"
    /\ entryObj' = ArchiveIteratorDropEntry(entryObj)
    /\ RcRelease
    /\ last' = Outcome("drop_iter", 0, "ok", 0, 0)
    /\ UNCHANGED <<builderVars, pos, entryMember, dataOff, clientData, pipeAddr, bridge>>
    /\ UNCHANGED <<token, advances, handles, pc, ended>>

\* ------------------------------------------------------------ the entries
\* is_current comparing the shared cell with the index after the handle's own
is_current_next(h) == token = h.current + 1

\* ArchiveEntry::is_current
is_current(h) == token = h.current

\* check_current with the assertion left out
check_current_skipped(h) == TRUE

\* ArchiveEntry::check_current: TRUE when the assert! passes
check_current(h) == is_current(h)

\* statuses of archive_read_data on the current member
ReadDataResults(hs) == IF hs = "open" THEN {"value", "ioerr"} ELSE {"ioerr"}

\* ArchiveEntry::filetype: the enum value for the engine's file type bits
FiletypeOf(mode) ==
    CASE mode = "AE_IFREG" -> "RegularFile"
      [] mode = "AE_IFLNK" -> "SymbolicLink"
      [] mode = "AE_IFSOCK" -> "Socket"
      [] mode = "AE_IFCHR" -> "CharacterDevice"
      [] mode = "AE_IFDIR" -> "Directory"
      [] mode = "AE_IFIFO" -> "NamedPipe"
      [] OTHER -> "Unkown"

\* the engine call a metadata accessor makes: is_directory and is_file go
\* through filetype
MetaEngineFn(op) ==
    IF op \in {"filetype", "is_directory", "is_file"}
    THEN "archive_entry_filetype"
    ELSE "archive_entry_" \o op

\* value a metadata accessor returns when the entry struct describes member m
MetaValue(op, m) ==
    CASE op = "pathname" -> MemberName(m)
      [] op = "size" -> MemberSize(m)
      [] op = "filetype" -> FiletypeOf(MemberMode(m))
      [] op = "is_directory" -> (FiletypeOf(MemberMode(m)) = "Directory")
      [] op = "is_file" -> (FiletypeOf(MemberMode(m)) = "RegularFile")

\* number of bytes archive_read_data delivers into a buffer of len bytes when
\* off bytes of member m have been delivered already
ReadDataSize(m, off, len) ==
    IF MemberSize(m) - off < len THEN MemberSize(m) - off ELSE len

\* the bytes archive_read_data copies into the buffer
ReadDataBytes(m, off, len) == SubSeq(Content(m), off + 1, off + ReadDataSize(m, off, len))

\* statuses archive_read_data_block can return: data or the end of the member
\* only while a member is selected on an open handle, a warning or a failure
\* at any time there, nothing but a failure elsewhere
ReadBlockStatuses(hs, m, off) ==
    IF hs = "open" /\ m > 0
    THEN (IF off < MemberSize(m) THEN {"OK"} ELSE {"EOF"}) \cup {"WARN", "FATAL"}
    ELSE {"FATAL"}

\* read_block reporting every status other than ARCHIVE_OK as the end of the member
ReadBlockResultOkOrNone(status) == IF status = "OK" THEN "chunk" ELSE "none"

\* Reader::read_block: the match on the status of archive_read_data_block
ReadBlockResult(status) ==
    CASE status = "EOF" -> "none"
      [] status = "OK" -> "chunk"
      [] OTHER -> "sys"

\* Reader::read_block(&self) on a session the caller still owns: one call of
\* archive_read_data_block; on ARCHIVE_OK the slice is the block the engine
\* reported (here the rest of the member's content)
ReadBlock ==
    /\ pc = "idle"
    /\ reader = "stack"
    /\ \E status \in ReadBlockStatuses(hState, entryMember, dataOff) :
          /\ hState' = IF status = "FATAL" THEN "fatal" ELSE hState
          /\ dataOff' = IF status = "OK" THEN MemberSize(entryMember) ELSE dataOff
          /\ last' = OutcomeRet("read_block", 0, ReadBlockResult(status),
                                IF status = "OK" THEN entryMember ELSE 0,
                                <<Call("archive_read_data_block", status)>>,
                                IF ReadBlockResult(status) = "chunk"
                                THEN ReadDataBytes(entryMember, dataOff,
                                                   MemberSize(entryMember) - dataOff)
                                ELSE <<>>)
    /\ UNCHANGED <<builderVars, freeCount, freedBy, pos, entryMember, clientData, pipeVars>>
    /\ UNCHANGED <<readerVars, iterVars>>

\* pathname / size / filetype / is_directory / is_file / Read::read on the
\* i-th entry produced: check_current first, then the engine call
EntryCall(i, op) ==
    /\ pc = "idle"
    /\ handles[i].live
    /\ IF ~check_current(handles[i])
       THEN /\ last' = Outcome(op, i, "panic", 0, 0)
            /\ UNCHANGED <<dataOff, handles>>
       ELSE IF op \in MetaOps
            THEN /\ last' = OutcomeRet(op, i, "value", entryMember,
                                       <<Call(MetaEngineFn(op), "OK")>>,
                                       MetaValue(op, entryMember))
                 /\ UNCHANGED <<dataOff, handles>>
            ELSE \E r \in ReadDataResults(hState), len \in ReadLens :
                    IF r = "value"
                    THEN /\ dataOff' = dataOff + ReadDataSize(entryMember, dataOff, len)
                         /\ handles' = [handles EXCEPT
                               ![i].got = @ \o ReadDataBytes(entryMember, dataOff, len),
                               ![i].done = (ReadDataSize(entryMember, dataOff, len) = 0)]
                         /\ last' = OutcomeRet(op, i, "value", entryMember,
                                               <<Call("archive_read_data", "OK")>>,
                                               ReadDataSize(entryMember, dataOff, len))
                    ELSE /\ last' = OutcomeCalls(op, i, "ioerr", 0,
                                                 <<Call("archive_read_data", "FATAL")>>)
                         /\ UNCHANGED <<dataOff, handles>>
    /\ UNCHANGED <<builderVars, pipeVars, readerVars>>
    /\ UNCHANGED <<hState, freeCount, freedBy, pos, entryMember, clientData>>
    /\ UNCHANGED <<iter, token, advances, pc, ended, entryObj>>

\* an ArchiveEntry is dropped: its Rc<ReaderHandle> is released
DropEntry(i) ==
    /\ pc = "idle"
    /\ handles[i].live
    /\ handles' = [handles EXCEPT ![i].live = FALSE]
    /\ RcRelease
    /\ last' = Outcome("drop_entry", i, "ok", 0, 0)
    /\ UNCHANGED <<builderVars, pos, entryMember, dataOff, clientData, pipeAddr, bridge>>
    /\ UNCHANGED <<iter, token, advances, pc, ended, entryObj>>

Next ==
    \/ Support
    \/ SupportAll
    \/ DropBuilder
    \/ OpenFile
    \/ OpenStream
    \/ DropReader
    \/ IntoIter
    \/ NextBump
    \/ NextHeader
    \/ ReaderNextHeader
    \/ ReadBlock
    \/ DropIter
    \/ \E i \in 1..Len(handles), op \in EntryOps : EntryCall(i, op)
    \/ \E i \in 1..Len(handles) : DropEntry(i)

Spec == Init /\ [][Next]_vars

\* the same program started from a Builder value with either value of the
\* consumed flag: open_file and open_stream as functions of the Builder
InitReuse ==
    \E c \in BOOLEAN :
        /\ builder = [live |-> TRUE, consumed |-> c]
        /\ nsupport = 0
        /\ hState = "new"
        /\ freeCount = 0
        /\ freedBy = "none"
        /\ pos = 0
        /\ entryMember = 0
        /\ dataOff = 0
        /\ clientData = NullPtr
        /\ pipe = "none"
        /\ pipeAddr = NullPtr
        /\ pipeAtFree = "unset"
        /\ bridge = PipeNew
        /\ reader = "none"
        /\ rcCount = 0
        /\ iter = "none"
        /\ token = None
        /\ advances = 0
        /\ handles = <<>>
        /\ pc = "idle"
        /\ ended = FALSE
        /\ entryObj = NoEntryObj
        /\ last = Outcome("new", 0, "ok", 0, 0)

SpecReuse == InitReuse /\ [][Next]_vars

\* a stream session with the engine's pulls interleaved: the Builder opens a
\* stream, the session is iterated or dropped, and the engine calls
\* stream_read_callback whenever it wants a block
NextBridge ==
    \/ OpenStream
    \/ Pull
    \/ DropReader
    \/ IntoIter
    \/ NextBump
    \/ NextHeader
    \/ DropIter

SpecBridge == Init /\ [][NextBridge]_vars

\* ----------------------------------------------------------------- claims
LiveCurrent == {i \in 1..Len(handles) : handles[i].live /\ is_current(handles[i])}

\* the last completed API call was an entry accessor or content read
AfterEntryCall == pc = "idle" /\ last.op \in EntryOps

\* C1: an accessor or content read on an entry whose index differs from the
\* shared cell panics without any engine call and returns no value; a value
\* that is returned belongs to the entry's own member
C1_StaleHandlePanics ==
    AfterEntryCall =>
        /\ (~is_current(handles[last.h]) =>
               /\ last.res = "panic"
               /\ last.eng = 0
               /\ last.val = 0
               /\ last.res \notin {"value", "ioerr"})
        /\ (last.res = "value" => last.val = handles[last.h].member)

C1_Witness ==
    /\ AfterEntryCall
    /\ last.op = "pathname"
    /\ last.res = "panic"
    /\ handles[last.h].current # token
    /\ entryMember # 0
    /\ entryMember # handles[last.h].member

\* C2: at most one live entry is current; a current entry is the one the
\* most recent next() returned and the engine is positioned on its member;
\* after a next() that returned None or an error no entry is current
C2_OneCurrent ==
    /\ Cardinality(LiveCurrent) <= 1
    /\ \A i \in LiveCurrent :
          /\ pc = "idle"
          /\ i = Len(handles)
          /\ handles[i].adv = advances
          /\ handles[i].member = entryMember
          /\ entryMember = pos
    /\ (pc = "idle" /\ last.op = "next" /\ last.res \in {"end", "sys"}) => LiveCurrent = {}

C2_Witness ==
    /\ Cardinality({i \in 1..Len(handles) : handles[i].live}) >= 2
    /\ LiveCurrent = {Len(handles)}

\* C3: the indices carried by the entries next() returned are 0, 1, 2, ...
\* without gaps or repeats whatever each call returned, and None is returned
\* once the archive is exhausted
C3_IndicesGapFree ==
    /\ \A i \in 1..Len(handles) : handles[i].current = i - 1
    /\ (pc = "idle" /\ last.op = "next" /\ last.res = "end") => pos = NMembers

\* C4: once next() has returned None or an error, a later next() makes no
\* archive_read_next_header call and returns no entry
C4_TerminalAfterEnd ==
    [][(pc = "next_call" /\ ended) => (last'.eng = 0 /\ last'.res # "entry")]_vars

\* C5: the engine handle of a session is released exactly once, when the
\* session (or the last of the iterator and its entries) is dropped, and
\* never by the Builder
C5_ReleasedOnceAtTeardown ==
    reader # "none" =>
        /\ freedBy # "builder"
        /\ freeCount = IF reader = "dropped" THEN 1 ELSE 0
        /\ (reader = "dropped") = (hState = "freed")
        /\ reader = "dropped" => freedBy = "session"
        /\ reader = "rc" => (iter = "live" \/ \E i \in 1..Len(handles) : handles[i].live)
        /\ (reader = "dropped" /\ iter # "none") =>
              (iter = "dropped" /\ \A i \in 1..Len(handles) : ~handles[i].live)

C5_Witness ==
    /\ reader = "dropped"
    /\ iter = "dropped"
    /\ Len(handles) = 1
    /\ pos < NMembers
    /\ freeCount = 1
    /\ freedBy = "session"

\* C6: a Builder that ends its life without having produced a session has
\* released its engine handle, exactly once
C6_BuilderReleasesUnopened ==
    (~builder.live /\ reader = "none") => (freeCount = 1 /\ freedBy = "builder")

\* C7: open_file / open_stream on a Builder whose consumed flag is set return
\* the Consumed error, make no engine call, create no Pipe and leave the
\* flag and the engine handle as they were
C7_ConsumedBuilderRejected ==
    [][(builder.live /\ builder.consumed /\ ~builder'.live
            /\ last'.op \in {"open_file", "open_stream"}) =>
         /\ last'.res = "consumed"
         /\ last'.eng = 0
         /\ builder'.consumed = builder.consumed
         /\ <<pipe, pipeAddr, clientData>>' = <<pipe, pipeAddr, clientData>>
         /\ <<hState, freeCount, reader>>' = <<hState, freeCount, reader>>]_vars

C7_Witness ==
    /\ last.op = "open_stream"
    /\ last.res = "consumed"
    /\ ~builder.live
    /\ pipe = "none"

\* C8: after open_stream on an unconsumed Builder the consumed flag is set
\* whether the engine's open succeeded or failed; a failed open returns the
\* engine's error and leaves no usable Builder and no session
C8_StreamOpenConsumes ==
    last.op = "open_stream" =>
        /\ builder.consumed
        /\ ~builder.live
        /\ last.res \in {"ok", "sys"}
        /\ last.res = "sys" => (reader = "none" /\ hState = "fatal")

C8_Witness ==
    /\ last.op = "open_stream"
    /\ last.res = "sys"
    /\ builder.consumed

\* C9: from its registration with the engine until the engine handle is
\* released the Pipe stays allocated at the registered address, and when the
\* handle is released the Pipe is still allocated
C9_BridgeOutlivesHandle ==
    /\ (clientData # NullPtr /\ hState # "freed") =>
          (pipe = "alloc" /\ pipeAddr = clientData)
    /\ (clientData # NullPtr /\ hState = "freed") => pipeAtFree = "alloc"

\* C10: the shared cell is None until the first next(); every next() moves
\* it from None to Some(0) or from Some(i) to Some(i+1) before the engine is
\* called and before an entry is built; nothing else changes it
C10_TokenStep ==
    [][/\ (pc = "idle" /\ pc' = "next_call") =>
             /\ token' = (IF token = None THEN 0 ELSE token + 1)
             /\ token' > token
             /\ <<hState, pos, entryMember, handles>>' = <<hState, pos, entryMember, handles>>
       /\ (pc = "next_call") => (token' = token /\ token = advances - 1)
       /\ (token' # token) => (pc = "idle" /\ pc' = "next_call")
       /\ (advances = 0) => (token = None)]_vars

C10_Witness ==
    /\ token = 2
    /\ advances = 3
    /\ pc = "idle"
    /\ last.op \in EntryOps
    /\ \E i \in 1..Len(handles) : ~handles[i].live

\* status returned by the only engine call of the last API call
LastStatus == last.calls[1].status

\* C11: ReaderHandle::next_header reports a metadata view on ARCHIVE_OK, end
\* on end-of-archive and an error for every other engine status; an engine
\* failure is never reported the way end-of-archive is
C11_NextHeaderThreeOutcomes ==
    (pc = "idle" /\ last.op = "next_header") =>
        /\ (last.res = "entry") = (LastStatus = "OK")
        /\ (last.res = "none") = (LastStatus = "EOF")

\* every header the engine consumed so far was delivered cleanly through
\* next() and the engine reported no failure
WellFormedRun == hState \in {"open", "eof"} /\ Len(handles) = pos

IsPrefix(s, t) == Len(s) <= Len(t) /\ s = SubSeq(t, 1, Len(s))

\* C12: on an archive of well-formed members the k-th next() returns an entry
\* for the k-th member, its accessors return that member's name, size and
\* kind, the bytes read through it are that member's bytes (all of them once
\* a read returned 0) and the next() after the last member returns None
C12_MembersInOrder ==
    /\ WellFormedRun =>
          /\ \A k \in 1..Len(handles) : handles[k].member = k /\ handles[k].adv = k
          /\ (AfterEntryCall /\ last.op \in MetaOps /\ last.res = "value") =>
                 last.ret = MetaValue(last.op, last.h)
          /\ (pc = "idle" /\ last.op = "next" /\ advances = NMembers + 1) =>
                 last.res = "end"
          /\ (pc = "idle" /\ last.op = "next" /\ advances <= NMembers) =>
                 last.res = "entry"
    /\ \A k \in 1..Len(handles) :
          /\ IsPrefix(handles[k].got, Content(handles[k].member))
          /\ handles[k].done => handles[k].got = Content(handles[k].member)

\* the fixture case: hello.txt read to completion, then end
C12_Witness ==
    /\ WellFormedRun
    /\ pc = "idle" /\ last.op = "next" /\ last.res = "end"
    /\ advances = NMembers + 1
    /\ handles[1].done
    /\ Len(handles[1].got) = HelloSize
    /\ MetaValue("pathname", handles[1].member) = "hello.txt"
    /\ handles[2].done

\* C13: support_all registers all formats, then all filters, then all
\* compressions; a failing registration ends the chain: it is the last call
\* issued, its error is the result and the builder is not handed back
C13_SupportAllShortCircuits ==
    last.op = "support_all" =>
        /\ Len(last.calls) \in 1..3
        /\ \A k \in 1..Len(last.calls) :
              last.calls[k].fn = <<"archive_read_support_format_all",
                                   "archive_read_support_filter_all",
                                   "archive_read_support_compression_all">>[k]
        /\ \A k \in 1..(Len(last.calls) - 1) : last.calls[k].status = "OK"
        /\ (last.res = "ok") = (Len(last.calls) = 3 /\ last.calls[3].status = "OK")
        /\ last.res = "ok" => builder.live
        /\ last.res # "ok" => (last.res = "sys" /\ ~builder.live /\ reader = "none")

C13_Witness ==
    /\ last.op = "support_all"
    /\ last.res = "sys"
    /\ Len(last.calls) = 2
    /\ last.calls[2].status = "FAILED"
    /\ ~builder.live

\* C14: a pull in which the wrapped source fails makes the callback, in that
\* same call, return -1 with the engine's error set to the source's message
\* and its OS error number (0 when it has none), after exactly one source
\* read and without handing the engine any bytes
C14_SourceFailureReported ==
    [][(bridge'.pulls = bridge.pulls + 1 /\ bridge'.cb.src.kind = "err") =>
          /\ bridge'.cb.outcome = "return"
          /\ bridge'.cb.ret = -1
          /\ bridge'.err = [errno |-> UnwrapOr0(bridge'.cb.src.os),
                            msg |-> bridge'.cb.src.msg]
          /\ bridge'.cb.reads = 1
          /\ bridge'.delivered = bridge.delivered
          /\ bridge'.srcPos = bridge.srcPos]_vars

\* the source range [0, n) as the chunks d cover it, in order and gap-free
Contiguous(d, n) ==
    /\ \A k \in 1..Len(d) :
          d[k].from = (IF k = 1 THEN 0 ELSE d[k - 1].from + d[k - 1].len)
    /\ n = (IF d = <<>> THEN 0 ELSE d[Len(d)].from + d[Len(d)].len)

\* C15: the chunks the bridge hands to the engine are non-empty, at most
\* BufLen bytes each, lie in the part of the buffer the read just filled, and
\* concatenate to exactly the bytes read from the source so far, in order;
\* each pull reads the source once, and a return of 0 is given only when the
\* source is exhausted, so that then the chunks are the whole source
C15_ChunksAreTheSource ==
    /\ \A k \in 1..Len(bridge.delivered) : bridge.delivered[k].len \in 1..BufLen
    /\ Contiguous(bridge.delivered, bridge.srcPos)
    /\ bridge.srcPos <= SrcLen
    /\ bridge.cb.outcome # "none" => bridge.cb.reads = 1
    /\ (bridge.cb.outcome = "return" /\ bridge.cb.ret > 0) =>
          /\ bridge.cb.ret = bridge.buf.len
          /\ bridge.cb.buff = pipeAddr
    /\ (bridge.cb.outcome = "return" /\ bridge.cb.ret = 0) =>
          /\ bridge.cb.src.kind = "ok"
          /\ Contiguous(bridge.delivered, SrcLen)

\* a source longer than the buffer was pulled to its end in several chunks
C15_Witness ==
    /\ bridge.cb.outcome = "return"
    /\ bridge.cb.ret = 0
    /\ Len(bridge.delivered) >= 2
    /\ bridge.delivered[1].len = BufLen
    /\ bridge.srcPos = SrcLen

\* C17: read_block returns a chunk exactly when archive_read_data_block
\* returned OK, and then the chunk is the block of the selected member the
\* engine reported; it returns the end of the member exactly when the status
\* was EOF, and an engine error for every other status
C17_ReadBlockOutcomes ==
    last.op = "read_block" =>
        /\ Len(last.calls) = 1
        /\ last.calls[1].fn = "archive_read_data_block"
        /\ (last.res = "chunk") = (LastStatus = "OK")
        /\ (last.res = "none") = (LastStatus = "EOF")
        /\ (last.res = "sys") = (LastStatus \notin {"OK", "EOF"})
        /\ last.res = "chunk" =>
              /\ last.val = entryMember
              /\ Len(last.ret) <= MemberSize(entryMember)
              /\ \A j \in 1..Len(last.ret) :
                    last.ret[j] = Content(entryMember)[dataOff - Len(last.ret) + j]
        /\ last.res # "chunk" => last.ret = <<>>

\* a member was read to its end through read_block: a chunk, then the end
C17_Witness ==
    /\ last.op = "read_block"
    /\ last.res = "none"
    /\ entryMember > 0
    /\ dataOff = MemberSize(entryMember)

\* C18: pathname(), size() or filetype() on a live handle whose index is the
\* shared cell's value returns the value of the handle's member, the same
\* as the same accessor returned just before, and changes neither the cell,
\* the engine's cursor, entry and handle state, nor any handle, so the handle
\* is still current afterwards
C18_AccessorsReadOnly ==
    [][\A i \in 1..Len(handles) :
          (/\ pc = "idle" /\ pc' = "idle"
           /\ handles[i].live /\ handles[i].current = token
           /\ last'.h = i /\ last'.op \in {"pathname", "size", "filetype"}) =>
              /\ last'.res = "value"
              /\ last'.ret = MetaValue(last'.op, handles[i].member)
              /\ (last.h = i /\ last.op = last'.op /\ last.res = "value") => last'.ret = last.ret
              /\ token' = token
              /\ <<pos, entryMember, dataOff, hState>>' = <<pos, entryMember, dataOff, hState>>
              /\ handles' = handles
              /\ handles'[i].current = token']_vars

\* pathname() has just returned the name of the current member
C18_Witness ==
    /\ AfterEntryCall
    /\ last.op = "pathname" /\ last.res = "value" /\ last.ret = "hello.txt"
    /\ handles[last.h].live /\ handles[last.h].current = token
    /\ handles[last.h].member = 1

\* C19: when next() completes, every handle that existed before it is stale,
\* whatever the status; and when archive_read_next_header returned neither
\* OK nor EOF, next() returns an error, builds no handle and takes no new
\* reference to the session, while the shared cell holds this call's index
C19_FailedAdvanceStillBumps ==
    [][(pc = "next_call" /\ pc' = "idle") =>
          /\ last'.op = "next"
          /\ token' = advances' - 1
          /\ \A k \in 1..Len(handles) : handles'[k].current # token'
          /\ last'.calls[1].status \notin {"OK", "EOF"} =>
                /\ last'.res = "sys"
                /\ last'.h = 0
                /\ handles' = handles
                /\ rcCount' = rcCount]_vars

\* an advance failed after an earlier one had produced a handle that is still live
C19_Witness ==
    /\ pc = "idle"
    /\ last.op = "next" /\ last.res = "sys"
    /\ Len(handles) >= 1 /\ handles[1].live
    /\ handles[1].current = 0 /\ token = 1

\* the iterator or some ArchiveEntry, current or stale, still exists
OwnerAlive == iter = "live" \/ \E k \in 1..Len(handles) : handles[k].live

\* C20: while the iterator or any entry it produced exists the engine handle
\* is not released; every operation that calls the engine starts on a handle
\* that is not released; and after into_iter the handle is released only by
\* the step that drops the last of the iterator and the entries
C20_NoCallAfterRelease ==
    [][/\ OwnerAlive => (hState # "freed" /\ freeCount = 0)
       /\ OwnerAlive' => (hState' # "freed" /\ freeCount' = 0)
       /\ reader \in {"rc", "dropped"} =>
             rcCount = (IF iter = "live" THEN 1 ELSE 0)
                       + Cardinality({k \in 1..Len(handles) : handles[k].live})
       /\ (pc' = "idle" /\ last'.calls # <<>>) => hState # "freed"
       /\ (reader = "rc" /\ hState' = "freed") =>
             /\ OwnerAlive /\ ~OwnerAlive'
             /\ last'.op \in {"drop_iter", "drop_entry"}
             /\ freeCount' = 1]_vars

\* two entries were produced; the stale first one outlived the iterator and
\* the second entry, and dropping it released the engine handle
C20_Witness ==
    /\ hState = "freed" /\ freedBy = "session"
    /\ iter = "dropped"
    /\ Len(handles) = 2
    /\ last.op = "drop_entry" /\ last.h = 1
    /\ ~OwnerAlive

\* C21: once the iterator and every entry are gone (so the session is torn
\* down) the engine handle has been released and the archive_entry_new object
\* of into_iter has been freed exactly once
C21_EntryObjectFreedOnce ==
    (iter = "dropped" /\ ~OwnerAlive) =>
        /\ hState = "freed" /\ freeCount = 1
        /\ entryObj.state = "freed" /\ entryObj.frees = 1

TypeOK ==
    /\ builder \in [live : BOOLEAN, consumed : BOOLEAN]
    /\ nsupport \in 0..MaxSupport
    /\ hState \in {"new", "open", "eof", "fatal", "freed"}
    /\ freeCount \in 0..2
    /\ pos \in 0..NMembers
    /\ token \in None..MaxAdvance
    /\ advances \in 0..MaxAdvance
    /\ rcCount \in 0..(MaxAdvance + 1)
    /\ pc \in {"idle", "next_call", "aborted"}
    /\ entryObj.state \in {"none", "alloc", "freed"}
    /\ entryObj.ptr \in {"null", "own", "engine"}
    /\ bridge.pulls \in 0..MaxPulls
    /\ bridge.srcPos \in 0..SrcLen
====
